---- MODULE Spec2Model ----
(***************************************************************************)
(* stdgpu::vector<T> (src/stdgpu/impl/vector_detail.cuh): a fixed-capacity *)
(* device vector mutated concurrently by push_back / pop_back.  Every      *)
(* access to shared device memory (the atomic counter _size, the lock of a *)
(* slot, the occupancy bit of a slot, the data of a slot) is one step of   *)
(* the calling thread; steps of different threads interleave freely.       *)
(***************************************************************************)
EXTENDS Integers, Sequences, FiniteSets, Bags, TLC

\* ---- bounds of the model ------------------------------------------------
Capacity   == 2     \* createDeviceObject(size): number of slots, > 0
NumThreads == 2     \* concurrent device threads
MaxCalls   == 4     \* push_back / pop_back calls issued in a run, all threads together

Threads  == 1..NumThreads
Slots    == 0..(Capacity - 1)
Elems    == Threads                    \* thread t pushes the value t
Default  == 0                          \* T()
NoThread == 0                          \* a free lock
NoPos    == Capacity + NumThreads + 1  \* "no position reserved" in the call log

VARIABLES
    _size,        \* atomic<int> : the raw counter
    _data,        \* T*          : slot -> value
    _occupied,    \* bitset      : slot -> BOOLEAN
    _locks,       \* mutex_array : slot -> holder (NoThread when free)
    pc,           \* thread -> statement the thread executes next
    position,     \* thread -> push_position / pop_position
    element,      \* thread -> argument of push_back / local `element` of pop_back
    pushed,       \* thread -> local `pushed` / `popped.second`
    diag,         \* thread -> diagnostic printed by the call in flight
    log,          \* thread -> sequence of the calls that returned
    snap,         \* <<shared state at the start of the call in flight>> when that call runs alone
    trail,        \* the last calls that ran alone, one directly after the other
    cleared,      \* clear() has run; it is the last call of a run
    setter,       \* slot -> element of the push_back that set the occupancy bit (T() while the bit is clear)
    stack         \* the bounded LIFO stack the calls so far describe, while every call so far ran alone

vars == <<_size, _data, _occupied, _locks, pc, position, element, pushed, diag, log, snap, trail, stack, cleared, setter>>
shared == <<_size, _data, _occupied, _locks>>

\* ---- read-only members --------------------------------------------------
capacity == Capacity

max_size == capacity

\* size() that trusts the raw counter above capacity
sizeOfUnclamped(s) ==
    IF s < 0 THEN 0 ELSE s

\* size(): the counter clamped to [0, capacity]
sizeOf(s) ==
    IF s < 0 THEN 0
    ELSE IF s > Capacity THEN Capacity
    ELSE s

size == sizeOf(_size)

empty == (size = 0)

full == (size = max_size)

occupied(n) == _occupied[n]

\* bitset::count()
count(bits) == Cardinality({i \in Slots : bits[i]})

\* mutex_array::valid(): no lock is held
locks_valid == \A i \in Slots : _locks[i] = NoThread

size_valid == (0 <= _size /\ _size <= Capacity)

occupied_count_valid == (size = count(_occupied))

valid ==
    IF capacity = 0 THEN TRUE
    ELSE size_valid /\ occupied_count_valid /\ locks_valid

\* valid() evaluated on a recorded state <<_size, _data, _occupied, _locks>>
validAt(st) ==
    /\ 0 <= st[1] /\ st[1] <= Capacity
    /\ sizeOf(st[1]) = count(st[3])
    /\ \A i \in Slots : st[4][i] = NoThread

\* ---- helpers of the model ----------------------------------------------
InBounds(p) == 0 <= p /\ p < Capacity

Quiescent == \A t \in Threads : pc[t] = "idle"

\* number of calls that returned or are in flight
RECURSIVE IssuedBy(_)
IssuedBy(T) ==
    IF T = {} THEN 0
    ELSE LET t == CHOOSE x \in T : TRUE
         IN  Len(log[t]) + (IF pc[t] = "idle" THEN 0 ELSE 1) + IssuedBy(T \ {t})

Issued == IssuedBy(Threads)

Call(op, arg, ok, val, pos, dg) ==
    [op |-> op, arg |-> arg, ok |-> ok, val |-> val, pos |-> pos, diag |-> dg]

Last2(q) == IF Len(q) > 2 THEN Tail(q) ELSE q

\* a bounded LIFO stack of capacity Capacity, bottom first
StackPush(s, e) == IF Len(s) < Capacity THEN Append(s, e) ELSE s

StackPop(s) == IF Len(s) > 0 THEN SubSeq(s, 1, Len(s) - 1) ELSE s

StackApply(s, op, arg) == IF op = "push" THEN StackPush(s, arg) ELSE StackPop(s)

\* some calls overlapped: the run describes no stack
NotSerial == [serial |-> FALSE, items |-> <<>>]

\* first step of a call of thread t that goes on: it runs alone so far iff
\* no other call is in flight
Enter(t) ==
    /\ stack' = IF Quiescent THEN stack ELSE NotSerial
    /\ snap'  = IF Quiescent THEN <<shared>> ELSE <<>>
    /\ trail' = IF Quiescent THEN trail ELSE <<>>

\* the call of thread t returns: its record is logged and its locals die
Return(t, rec) ==
    /\ LET alone == IF pc[t] = "idle" THEN Quiescent ELSE snap # <<>>
           before == IF pc[t] = "idle" THEN shared ELSE snap[1]
       IN  /\ snap'  = <<>>
           /\ trail' = IF alone THEN Last2(Append(trail, [before |-> before, rec |-> rec]))
                       ELSE <<>>
           /\ stack' = IF alone /\ stack.serial
                       THEN [stack EXCEPT !.items = StackApply(@, rec.op, rec.arg)]
                       ELSE NotSerial
    /\ pc'       = [pc EXCEPT ![t] = "idle"]
    /\ log'      = [log EXCEPT ![t] = Append(@, rec)]
    /\ position' = [position EXCEPT ![t] = NoPos]
    /\ element'  = [element EXCEPT ![t] = Default]
    /\ pushed'   = [pushed EXCEPT ![t] = FALSE]
    /\ diag'     = [diag EXCEPT ![t] = "none"]

\* ---- construction -------------------------------------------------------
\* createDeviceObject that allocates the data without the fill value T()
InitUnfilled ==
    /\ _size     = 0
    /\ _data     = [i \in Slots |-> 1]
    /\ _occupied = [i \in Slots |-> FALSE]
    /\ _locks    = [i \in Slots |-> NoThread]
    /\ pc        = [t \in Threads |-> "idle"]
    /\ position  = [t \in Threads |-> NoPos]
    /\ element   = [t \in Threads |-> Default]
    /\ pushed    = [t \in Threads |-> FALSE]
    /\ diag      = [t \in Threads |-> "none"]
    /\ log       = [t \in Threads |-> <<>>]
    /\ snap      = <<>>
    /\ trail     = <<>>
    /\ cleared   = FALSE
    /\ setter    = [i \in Slots |-> Default]
    /\ stack     = [serial |-> TRUE, items |-> <<>>]

Init ==
    /\ _size     = 0
    /\ _data     = [i \in Slots |-> Default]
    /\ _occupied = [i \in Slots |-> FALSE]
    /\ _locks    = [i \in Slots |-> NoThread]
    /\ pc        = [t \in Threads |-> "idle"]
    /\ position  = [t \in Threads |-> NoPos]
    /\ element   = [t \in Threads |-> Default]
    /\ pushed    = [t \in Threads |-> FALSE]
    /\ diag      = [t \in Threads |-> "none"]
    /\ log       = [t \in Threads |-> <<>>]
    /\ snap      = <<>>
    /\ trail     = <<>>
    /\ cleared   = FALSE
    /\ setter    = [i \in Slots |-> Default]
    /\ stack     = [serial |-> TRUE, items |-> <<>>]

\* ---- push_back ----------------------------------------------------------
\* push_back whose preemptive check prints but does not return
PushFullNoReturn(t) ==
    /\ pc[t] = "idle"
    /\ Issued < MaxCalls
    /\ ~cleared
    /\ pc'      = [pc EXCEPT ![t] = "push_inc"]
    /\ element' = [element EXCEPT ![t] = t]
    /\ pushed'  = [pushed EXCEPT ![t] = FALSE]
    /\ Enter(t)
    /\ UNCHANGED <<shared, position, diag, log, cleared, setter>>

\* bool pushed = false; if (full()) return pushed;
PushFull(t) ==
    /\ pc[t] = "idle"
    /\ Issued < MaxCalls
    /\ ~cleared
    /\ UNCHANGED <<cleared, setter>>
    /\ IF full
       THEN /\ Return(t, Call("push", t, FALSE, Default, NoPos, "full"))
            /\ UNCHANGED shared
       ELSE /\ pc'      = [pc EXCEPT ![t] = "push_inc"]
            /\ element' = [element EXCEPT ![t] = t]
            /\ pushed'  = [pushed EXCEPT ![t] = FALSE]
            /\ Enter(t)
            /\ UNCHANGED <<shared, position, diag, log>>

\* push_back that gives an out-of-bounds reservation back: _size-- on failure
PushIncRollback(t) ==
    /\ pc[t] = "push_inc"
    /\ IF InBounds(_size)
       THEN /\ _size'    = _size + 1
            /\ position' = [position EXCEPT ![t] = _size]
            /\ pc'       = [pc EXCEPT ![t] = "push_try"]
            /\ UNCHANGED <<element, pushed, diag, log, snap, trail, stack>>
       ELSE /\ _size' = _size
            /\ Return(t, Call("push", element[t], FALSE, Default, _size, "bounds"))
    /\ UNCHANGED <<_data, _occupied, _locks, cleared, setter>>

\* push_back that reserves the incremented value: push_position = ++_size
PushIncPrefix(t) ==
    /\ pc[t] = "push_inc"
    /\ _size' = _size + 1
    /\ IF InBounds(_size + 1)
       THEN /\ position' = [position EXCEPT ![t] = _size + 1]
            /\ pc'       = [pc EXCEPT ![t] = "push_try"]
            /\ UNCHANGED <<element, pushed, diag, log, snap, trail, stack>>
       ELSE Return(t, Call("push", element[t], FALSE, Default, _size + 1, "bounds"))
    /\ UNCHANGED <<_data, _occupied, _locks, cleared, setter>>

\* int push_position = _size++; if (0 <= push_position && push_position < _capacity)
PushInc(t) ==
    /\ pc[t] = "push_inc"
    /\ _size' = _size + 1
    /\ IF InBounds(_size)
       THEN /\ position' = [position EXCEPT ![t] = _size]
            /\ pc'       = [pc EXCEPT ![t] = "push_try"]
            /\ UNCHANGED <<element, pushed, diag, log, snap, trail, stack>>
       ELSE Return(t, Call("push", element[t], FALSE, Default, _size, "bounds"))
    /\ UNCHANGED <<_data, _occupied, _locks, cleared, setter>>

\* push_back that enters the critical section whatever try_lock() returned
PushTryIgnored(t) ==
    /\ pc[t] = "push_try"
    /\ _locks' = [_locks EXCEPT ![position[t]] = IF @ = NoThread THEN t ELSE @]
    /\ pc'     = [pc EXCEPT ![t] = "push_occ"]
    /\ UNCHANGED <<_size, _data, _occupied, position, element, pushed, diag, log, snap, trail, stack, cleared, setter>>

\* if (_locks[push_position].try_lock())
PushTry(t) ==
    /\ pc[t] = "push_try"
    /\ IF _locks[position[t]] = NoThread
       THEN /\ _locks' = [_locks EXCEPT ![position[t]] = t]
            /\ pc'     = [pc EXCEPT ![t] = "push_occ"]
       ELSE UNCHANGED <<_locks, pc>>
    /\ UNCHANGED <<_size, _data, _occupied, position, element, pushed, diag, log, snap, trail, stack, cleared, setter>>

\* if (!occupied(push_position))
PushOcc(t) ==
    /\ pc[t] = "push_occ"
    /\ pc' = [pc EXCEPT ![t] = IF ~occupied(position[t]) THEN "push_data" ELSE "push_unlock"]
    /\ UNCHANGED <<shared, position, element, pushed, diag, log, snap, trail, stack, cleared, setter>>

\* _data[push_position] = element;
PushData(t) ==
    /\ pc[t] = "push_data"
    /\ _data' = [_data EXCEPT ![position[t]] = element[t]]
    /\ pc'    = [pc EXCEPT ![t] = "push_set"]
    /\ UNCHANGED <<_size, _occupied, _locks, position, element, pushed, diag, log, snap, trail, stack, cleared, setter>>

\* push_back that stores the element but never sets the occupancy bit
PushSetNoBit(t) ==
    /\ pc[t] = "push_set"
    /\ pushed' = [pushed EXCEPT ![t] = TRUE]
    /\ pc'     = [pc EXCEPT ![t] = "push_unlock"]
    /\ UNCHANGED <<shared, position, element, diag, log, snap, trail, stack, cleared, setter>>

\* bool was_occupied = _occupied.set(push_position); pushed = true;
PushSet(t) ==
    /\ pc[t] = "push_set"
    /\ _occupied' = [_occupied EXCEPT ![position[t]] = TRUE]
    /\ pushed'    = [pushed EXCEPT ![t] = TRUE]
    /\ diag'      = [diag EXCEPT ![t] = IF _occupied[position[t]] THEN "occupied" ELSE @]
    /\ pc'        = [pc EXCEPT ![t] = "push_unlock"]
    /\ setter'    = [setter EXCEPT ![position[t]] = element[t]]
    /\ UNCHANGED <<_size, _data, _locks, position, element, log, snap, trail, stack, cleared>>

\* push_back without the retry loop: one pass through the critical section
PushUnlockOnce(t) ==
    /\ pc[t] = "push_unlock"
    /\ _locks' = [_locks EXCEPT ![position[t]] = NoThread]
    /\ Return(t, Call("push", element[t], pushed[t], Default, position[t], diag[t]))
    /\ UNCHANGED <<_size, _data, _occupied, cleared, setter>>

\* _locks[push_position].unlock(); then while (!pushed) / return pushed;
PushUnlock(t) ==
    /\ pc[t] = "push_unlock"
    /\ _locks' = [_locks EXCEPT ![position[t]] = NoThread]
    /\ IF pushed[t]
       THEN Return(t, Call("push", element[t], TRUE, Default, position[t], diag[t]))
       ELSE /\ pc' = [pc EXCEPT ![t] = "push_try"]
            /\ UNCHANGED <<position, element, pushed, diag, log, snap, trail, stack>>
    /\ UNCHANGED <<_size, _data, _occupied, cleared, setter>>

push_back(t) ==
    \/ PushFull(t)
    \/ PushInc(t)
    \/ PushTry(t)
    \/ PushOcc(t)
    \/ PushData(t)
    \/ PushSet(t)
    \/ PushUnlock(t)

\* ---- pop_back -----------------------------------------------------------
\* pop_back whose preemptive check prints but does not return
PopEmptyNoReturn(t) ==
    /\ pc[t] = "idle"
    /\ Issued < MaxCalls
    /\ ~cleared
    /\ pc'      = [pc EXCEPT ![t] = "pop_dec"]
    /\ element' = [element EXCEPT ![t] = Default]
    /\ pushed'  = [pushed EXCEPT ![t] = FALSE]
    /\ Enter(t)
    /\ UNCHANGED <<shared, position, diag, log, cleared, setter>>

\* thrust::pair<T, bool> popped = (T(), false); if (empty()) return popped;
PopEmpty(t) ==
    /\ pc[t] = "idle"
    /\ Issued < MaxCalls
    /\ ~cleared
    /\ UNCHANGED <<cleared, setter>>
    /\ IF empty
       THEN /\ Return(t, Call("pop", Default, FALSE, Default, NoPos, "empty"))
            /\ UNCHANGED shared
       ELSE /\ pc'      = [pc EXCEPT ![t] = "pop_dec"]
            /\ element' = [element EXCEPT ![t] = Default]
            /\ pushed'  = [pushed EXCEPT ![t] = FALSE]
            /\ Enter(t)
            /\ UNCHANGED <<shared, position, diag, log>>

\* pop_back that reserves the value before the decrement: pop_position = _size--
PopDecPostfix(t) ==
    /\ pc[t] = "pop_dec"
    /\ _size' = _size - 1
    /\ IF InBounds(_size)
       THEN /\ position' = [position EXCEPT ![t] = _size]
            /\ pc'       = [pc EXCEPT ![t] = "pop_try"]
            /\ UNCHANGED <<element, pushed, diag, log, snap, trail, stack>>
       ELSE Return(t, Call("pop", Default, FALSE, Default, _size, "bounds"))
    /\ UNCHANGED <<_data, _occupied, _locks, cleared, setter>>

\* int pop_position = --_size; if (0 <= pop_position && pop_position < _capacity)
PopDec(t) ==
    /\ pc[t] = "pop_dec"
    /\ _size' = _size - 1
    /\ IF InBounds(_size - 1)
       THEN /\ position' = [position EXCEPT ![t] = _size - 1]
            /\ pc'       = [pc EXCEPT ![t] = "pop_try"]
            /\ UNCHANGED <<element, pushed, diag, log, snap, trail, stack>>
       ELSE Return(t, Call("pop", Default, FALSE, Default, _size - 1, "bounds"))
    /\ UNCHANGED <<_data, _occupied, _locks, cleared, setter>>

\* if (_locks[pop_position].try_lock())
PopTry(t) ==
    /\ pc[t] = "pop_try"
    /\ IF _locks[position[t]] = NoThread
       THEN /\ _locks' = [_locks EXCEPT ![position[t]] = t]
            /\ pc'     = [pc EXCEPT ![t] = "pop_occ"]
       ELSE UNCHANGED <<_locks, pc>>
    /\ UNCHANGED <<_size, _data, _occupied, position, element, pushed, diag, log, snap, trail, stack, cleared, setter>>

\* if (occupied(pop_position))
PopOcc(t) ==
    /\ pc[t] = "pop_occ"
    /\ pc' = [pc EXCEPT ![t] = IF occupied(position[t]) THEN "pop_reset" ELSE "pop_unlock"]
    /\ UNCHANGED <<shared, position, element, pushed, diag, log, snap, trail, stack, cleared, setter>>

\* pop_back that takes the element but leaves the occupancy bit set
PopResetKept(t) ==
    /\ pc[t] = "pop_reset"
    /\ pc' = [pc EXCEPT ![t] = "pop_read"]
    /\ UNCHANGED <<shared, position, element, pushed, diag, log, snap, trail, stack, cleared, setter>>

\* bool was_occupied = _occupied.reset(pop_position);
PopReset(t) ==
    /\ pc[t] = "pop_reset"
    /\ _occupied' = [_occupied EXCEPT ![position[t]] = FALSE]
    /\ diag'      = [diag EXCEPT ![t] = IF ~_occupied[position[t]] THEN "not occupied" ELSE @]
    /\ pc'        = [pc EXCEPT ![t] = "pop_read"]
    /\ setter'    = [setter EXCEPT ![position[t]] = Default]
    /\ UNCHANGED <<_size, _data, _locks, position, element, pushed, log, snap, trail, stack, cleared>>

\* pop_back that reads the slot after it was reset to T()
PopReadAfterReset(t) ==
    /\ pc[t] = "pop_read"
    /\ element' = [element EXCEPT ![t] = Default]
    /\ pc'      = [pc EXCEPT ![t] = "pop_data"]
    /\ UNCHANGED <<shared, position, pushed, diag, log, snap, trail, stack, cleared, setter>>

\* T element = _data[pop_position];
PopRead(t) ==
    /\ pc[t] = "pop_read"
    /\ element' = [element EXCEPT ![t] = _data[position[t]]]
    /\ pc'      = [pc EXCEPT ![t] = "pop_data"]
    /\ UNCHANGED <<shared, position, pushed, diag, log, snap, trail, stack, cleared, setter>>

\* pop_back that leaves the popped value in the slot
PopDataKept(t) ==
    /\ pc[t] = "pop_data"
    /\ pushed' = [pushed EXCEPT ![t] = TRUE]
    /\ pc'     = [pc EXCEPT ![t] = "pop_unlock"]
    /\ UNCHANGED <<shared, position, element, diag, log, snap, trail, stack, cleared, setter>>

\* _data[pop_position] = T(); popped = (element, true);
PopData(t) ==
    /\ pc[t] = "pop_data"
    /\ _data'  = [_data EXCEPT ![position[t]] = Default]
    /\ pushed' = [pushed EXCEPT ![t] = TRUE]
    /\ pc'     = [pc EXCEPT ![t] = "pop_unlock"]
    /\ UNCHANGED <<_size, _occupied, _locks, position, element, diag, log, snap, trail, stack, cleared, setter>>

\* pop_back without the retry loop: an unoccupied slot yields (T(), false)
PopUnlockOnce(t) ==
    /\ pc[t] = "pop_unlock"
    /\ _locks' = [_locks EXCEPT ![position[t]] = NoThread]
    /\ Return(t, Call("pop", Default, pushed[t], element[t], position[t], diag[t]))
    /\ UNCHANGED <<_size, _data, _occupied, cleared, setter>>

\* _locks[pop_position].unlock(); then while (!popped.second) / return popped;
PopUnlock(t) ==
    /\ pc[t] = "pop_unlock"
    /\ _locks' = [_locks EXCEPT ![position[t]] = NoThread]
    /\ IF pushed[t]
       THEN Return(t, Call("pop", Default, TRUE, element[t], position[t], diag[t]))
       ELSE /\ pc' = [pc EXCEPT ![t] = "pop_try"]
            /\ UNCHANGED <<position, element, pushed, diag, log, snap, trail, stack>>
    /\ UNCHANGED <<_size, _data, _occupied, cleared, setter>>

pop_back(t) ==
    \/ PopEmpty(t)
    \/ PopDec(t)
    \/ PopTry(t)
    \/ PopOcc(t)
    \/ PopReset(t)
    \/ PopRead(t)
    \/ PopData(t)
    \/ PopUnlock(t)

\* ---- clear --------------------------------------------------------------
\* Host function; the caller guarantees that no push_back / pop_back is in
\* flight.  if (empty()) return; fill [0, size()) with T(); _occupied.reset();
\* _size.store(0);
clear ==
    /\ Quiescent
    /\ ~cleared
    /\ cleared' = TRUE
    /\ IF empty
       THEN UNCHANGED <<_size, _data, _occupied, setter>>
       ELSE /\ _data'     = [i \in Slots |-> IF i < size THEN Default ELSE _data[i]]
            /\ _occupied' = [i \in Slots |-> FALSE]
            /\ setter'    = [i \in Slots |-> Default]
            /\ _size'     = 0
    /\ UNCHANGED <<_locks, pc, position, element, pushed, diag, log, snap, trail, stack>>

Next ==
    \/ \E t \in Threads : push_back(t)
    \/ \E t \in Threads : pop_back(t)
    \/ clear

Spec == Init /\ [][Next]_vars

\* the steps of a call in flight; issuing a call is up to the caller
Step(t) ==
    \/ PushInc(t) \/ PushOcc(t) \/ PushData(t) \/ PushSet(t) \/ PushUnlock(t)
    \/ PopDec(t) \/ PopOcc(t) \/ PopReset(t) \/ PopRead(t) \/ PopData(t) \/ PopUnlock(t)

\* every thread in flight keeps running, and a thread whose try_lock() can
\* succeed again and again does succeed
Fairness ==
    \A t \in Threads :
        /\ WF_vars(Step(t))
        /\ SF_vars(PushTry(t))
        /\ SF_vars(PopTry(t))

FairSpec == Spec /\ Fairness

\* ---- the call history ---------------------------------------------------
Returned == {c \in Threads \X (1..MaxCalls) : c[2] <= Len(log[c[1]])}

Rec(c) == log[c[1]][c[2]]

PushOk == {c \in Returned : Rec(c).op = "push" /\ Rec(c).ok}

PopOk == {c \in Returned : Rec(c).op = "pop" /\ Rec(c).ok}

OutOfBounds == {c \in Returned : Rec(c).diag = "bounds"}

\* ---- C1 ----------------------------------------------------------------
\* C1: once every push_back / pop_back call has returned (and clear() has not
\* run), valid() is true: the raw counter lies in [0, capacity], the number
\* of set occupancy bits equals size(), and no slot lock is held.
C1_QuiescentValid ==
    (Quiescent /\ ~cleared) =>
        /\ valid
        /\ size_valid /\ occupied_count_valid /\ locks_valid

\* ---- C2 ----------------------------------------------------------------
\* C2: once every call has returned, size() equals the number of push_back
\* calls that returned true minus the number of pop_back calls that returned
\* second == true, and that difference lies in [0, capacity].
C2_SizeIsNetCount ==
    (Quiescent /\ ~cleared) =>
        LET net == Cardinality(PushOk) - Cardinality(PopOk)
        IN  size = net /\ 0 <= net /\ net <= Capacity

\* a quiescent state after a boundary race: one push and one pop succeeded,
\* a second pop reserved position -1 and left the raw counter negative
C2_Witness ==
    /\ Quiescent /\ ~cleared
    /\ Cardinality(PushOk) = 1 /\ Cardinality(PopOk) = 1
    /\ OutOfBounds # {} /\ _size < 0

\* ---- C3 ----------------------------------------------------------------
\* C3: in every reachable state, also in the middle of concurrent calls
\* where the raw counter is negative or greater than capacity, size() is in
\* [0, capacity]: a negative counter is reported as 0, a counter above
\* capacity as capacity, a counter in range as itself.
C3_SizeClamped ==
    /\ 0 <= size /\ size <= Capacity
    /\ (_size < 0) => (size = 0)
    /\ (_size > Capacity) => (size = Capacity)
    /\ (0 <= _size /\ _size <= Capacity) => (size = _size)

\* a call is in flight while the raw counter is above capacity
C3_Witness == ~Quiescent /\ _size > Capacity

\* ---- C4 ----------------------------------------------------------------
CriticalSection ==
    {"push_occ", "push_data", "push_set", "push_unlock",
     "pop_occ", "pop_reset", "pop_read", "pop_data", "pop_unlock"}

InCS(t, i) == pc[t] \in CriticalSection /\ position[t] = i

\* a step of push_back / pop_back that changes data[i] or occupancy bit i is
\* a step of the thread that holds lock i before and after the step
WriteUnderLock ==
    \A i \in Slots :
        ((_data'[i] # _data[i] \/ _occupied'[i] # _occupied[i]) /\ cleared' = cleared) =>
            \E t \in Threads :
                /\ _locks[i] = t /\ _locks'[i] = t
                /\ InCS(t, i) /\ pc'[t] # pc[t]

\* C4: per-slot mutual exclusion: at most one thread is inside the critical
\* section of slot i, that thread holds lock i, and every write of push_back
\* or pop_back to data[i] or to occupancy bit i is made by the holder of
\* lock i.
C4_SlotMutex ==
    /\ [](\A i \in Slots : \A t, u \in Threads :
            (InCS(t, i) /\ InCS(u, i)) => (t = u /\ _locks[i] = t))
    /\ [][WriteUnderLock]_vars

\* one thread is writing slot 0 under its lock while the other thread spins
\* on the same lock
C4_Witness ==
    \E t, u \in Threads :
        /\ t # u
        /\ InCS(t, 0) /\ pc[t] \in {"push_data", "push_set", "pop_reset", "pop_data"}
        /\ pc[u] \in {"push_try", "pop_try"} /\ position[u] = 0
\* ---- C5 ----------------------------------------------------------------
Active == {t \in Threads : log[t] # <<>> \/ pc[t] # "idle"}

PushLabels == {"push_inc", "push_try", "push_occ", "push_data", "push_set", "push_unlock"}

\* the run so far consists of at most capacity threads that each called
\* push_back once (thread t pushes the value t) on the empty vector
OnePushEach ==
    /\ ~cleared
    /\ Cardinality(Active) <= Capacity
    /\ \A t \in Active :
        \/ pc[t] \in PushLabels /\ log[t] = <<>>
        \/ pc[t] = "idle" /\ Len(log[t]) = 1 /\ log[t][1].op = "push"

ReservedPos(t) == IF pc[t] # "idle" THEN position[t] ELSE log[t][1].pos

\* C5: when capacity-many threads each call push_back once with pairwise
\* distinct elements on the empty vector, every call returns true, the
\* threads reserve and write pairwise different slots, and once all have
\* returned exactly capacity slots are occupied and the set of stored
\* elements equals the set of pushed elements.
C5_StressPush ==
    OnePushEach =>
        /\ \A t \in Active : pc[t] = "idle" => log[t][1].ok
        /\ \A t, u \in Active :
            (t # u /\ ReservedPos(t) # NoPos /\ ReservedPos(u) # NoPos) =>
                ReservedPos(t) # ReservedPos(u)
        /\ (Quiescent /\ Cardinality(Active) = Capacity) =>
            /\ count(_occupied) = Capacity
            /\ \A i \in Slots : _occupied[i]
            /\ {_data[i] : i \in Slots} = {log[t][1].arg : t \in Active}
            /\ \A t \in Active : _data[log[t][1].pos] = t

\* capacity-many threads pushed once each and all have returned, the thread
\* with the higher id holding the lower slot
C5_Witness ==
    /\ OnePushEach /\ Quiescent /\ Cardinality(Active) = Capacity
    /\ \E t, u \in Active : t < u /\ log[t][1].pos > log[u][1].pos

\* ---- C6 ----------------------------------------------------------------
Values == Elems \cup {Default}

PushedCount(e) == Cardinality({c \in PushOk : Rec(c).arg = e})

PoppedCount(e) == Cardinality({c \in PopOk : Rec(c).val = e})

StoredCount(e) == Cardinality({i \in Slots : _occupied[i] /\ _data[i] = e})

\* every active thread called push_back and then pop_back, and nothing else
PushThenPopEach ==
    /\ ~cleared /\ Quiescent
    /\ Cardinality(Active) = Capacity
    /\ \A t \in Active :
        Len(log[t]) = 2 /\ log[t][1].op = "push" /\ log[t][2].op = "pop"

\* C6: no element is lost, duplicated or invented: once all calls have
\* returned, the multiset of elements passed to successful push_back calls
\* equals the multiset of values returned by successful pop_back calls plus
\* the multiset of values in occupied slots.  In particular, when capacity
\* threads push distinct values and then each pop once, every pop succeeds,
\* the popped multiset equals the pushed multiset and size() == 0.
C6_NoElementLost ==
    /\ (Quiescent /\ ~cleared) =>
            \A e \in Values : PushedCount(e) = PoppedCount(e) + StoredCount(e)
    /\ PushThenPopEach =>
            /\ \A t \in Active : log[t][1].ok /\ log[t][2].ok
            /\ \A e \in Values : PoppedCount(e) = PushedCount(e)
            /\ \A e \in Elems : PushedCount(e) = (IF e \in Active THEN 1 ELSE 0)
            /\ size = 0

\* capacity threads pushed and popped, and some thread popped the value
\* another thread pushed
C6_Witness ==
    /\ PushThenPopEach
    /\ \E t \in Active : log[t][2].val # t /\ log[t][2].val \in Elems

\* ---- C7 ----------------------------------------------------------------
Last(q) == q[Len(q)]

ReturnsAtOnce(t) == pc[t] = "idle" /\ pc'[t] = "idle" /\ Len(log'[t]) = Len(log[t]) + 1

CallsPush(t) ==
    /\ pc[t] = "idle"
    /\ \/ pc'[t] = "push_inc"
       \/ ReturnsAtOnce(t) /\ Last(log'[t]).op = "push"

CallsPop(t) ==
    /\ pc[t] = "idle"
    /\ \/ pc'[t] = "pop_dec"
       \/ ReturnsAtOnce(t) /\ Last(log'[t]).op = "pop"

CapacityViolation ==
    \A t \in Threads :
        /\ (CallsPush(t) /\ full) =>
                /\ ReturnsAtOnce(t)
                /\ ~Last(log'[t]).ok /\ Last(log'[t]).diag = "full"
                /\ shared' = shared
                /\ size' = Capacity
        /\ (CallsPop(t) /\ empty) =>
                /\ ReturnsAtOnce(t)
                /\ ~Last(log'[t]).ok /\ Last(log'[t]).val = Default
                /\ Last(log'[t]).diag = "empty"
                /\ shared' = shared
                /\ size' = 0

\* C7: a push_back that observes full() returns false and a pop_back that
\* observes empty() returns (T(), false); the raw counter, every data slot,
\* every occupancy bit and every lock are as before the call, so size()
\* stays capacity respectively 0.
C7_CapacityViolation == [][CapacityViolation]_vars

\* capacity pushes succeeded and the next push, run alone, failed on full()
C7_Witness ==
    /\ Quiescent /\ ~cleared
    /\ Cardinality(PushOk) = Capacity /\ PopOk = {}
    /\ trail # <<>>
    /\ Last(trail).rec.op = "push" /\ Last(trail).rec.diag = "full"
    /\ size = Capacity
\* ---- C8 ----------------------------------------------------------------
\* the last two calls ran alone, one directly after the other: a push_back
\* that returned true from a valid state with size() < capacity, then a
\* pop_back, and nothing has happened since
PushThenPopAlone ==
    /\ Quiescent /\ ~cleared
    /\ Len(trail) = 2
    /\ trail[1].rec.op = "push" /\ trail[1].rec.ok
    /\ validAt(trail[1].before)
    /\ sizeOf(trail[1].before[1]) < Capacity
    /\ trail[2].rec.op = "pop"

\* C8: round trip: in a quiescent valid state with size() < capacity, a
\* push_back(e) that returns true followed directly by pop_back returns
\* (e, true); afterwards the slot that held e is unoccupied, its data is
\* T(), and the counter, data and occupancy bits are as before the push.
C8_RoundTrip ==
    PushThenPopAlone =>
        LET p == trail[1].rec.pos
        IN  /\ trail[2].rec.ok
            /\ trail[2].rec.val = trail[1].rec.arg
            /\ trail[2].rec.pos = p
            /\ ~_occupied[p]
            /\ _data[p] = Default
            /\ _size = trail[1].before[1]
            /\ _data = trail[1].before[2]
            /\ _occupied = trail[1].before[3]

\* a round trip on top of one stored element
C8_Witness ==
    /\ PushThenPopAlone
    /\ trail[1].before[1] = 1
    /\ trail[1].rec.pos = 1

\* ---- C9 ----------------------------------------------------------------
\* C9: clear() called in any quiescent state reachable by push_back /
\* pop_back interleavings ends with the raw counter 0, every occupancy bit
\* false, every data slot T(), empty() true and valid() true.
C9_ClearResets ==
    cleared =>
        /\ _size = 0
        /\ \A i \in Slots : ~_occupied[i] /\ _data[i] = Default
        /\ empty
        /\ valid

\* ---- C10 ---------------------------------------------------------------
\* C10: under fair scheduling of every thread and fair lock acquisition,
\* every call in flight, and so every call that reserved an in-bounds
\* position and spins on its slot lock, eventually returns.
C10_CallsReturn ==
    \A t \in Threads : (pc[t] # "idle") ~> (pc[t] = "idle")

\* a push found its reserved slot still occupied and has to go around the
\* loop again while the pop of that slot waits for the lock
C10_Witness ==
    \E t, u \in Threads :
        /\ pc[t] = "push_unlock" /\ ~pushed[t]
        /\ pc[u] = "pop_try" /\ position[u] = position[t]
\* ---- C11 ---------------------------------------------------------------
\* C11: in every quiescent state reached by push_back / pop_back (all calls
\* returned), the number of set occupancy bits equals the clamped size(),
\* also when failed out-of-bounds reservations left the raw counter outside
\* [0, capacity].
C11_CountIsSize ==
    (Quiescent /\ ~cleared) => (count(_occupied) = size /\ occupied_count_valid)

\* all calls returned, every slot is occupied and the raw counter is above
\* capacity after an out-of-bounds push
C11_Witness ==
    /\ Quiescent /\ ~cleared
    /\ _size > Capacity
    /\ count(_occupied) = Capacity
    /\ \E c \in OutOfBounds : Rec(c).op = "push"
\* ---- C12 ---------------------------------------------------------------
PopLabels ==
    {"pop_dec", "pop_try", "pop_occ", "pop_reset", "pop_read", "pop_data", "pop_unlock"}

\* state of logical slot i: a held lock is named after the operation that
\* holds it (mid push: LOCKED-FREE, mid pop: LOCKED-OCCUPIED)
SlotState(i) ==
    IF _locks[i] = NoThread
    THEN IF _occupied[i] THEN "OCCUPIED" ELSE "FREE"
    ELSE IF pc[_locks[i]] \in PushLabels THEN "LOCKED-FREE" ELSE "LOCKED-OCCUPIED"

Cycle ==
    {<<"FREE", "LOCKED-FREE">>, <<"LOCKED-FREE", "OCCUPIED">>,
     <<"OCCUPIED", "LOCKED-OCCUPIED">>, <<"LOCKED-OCCUPIED", "FREE">>}

\* a push locks an occupied slot, a pop locks a free slot
Retries == {<<"OCCUPIED", "LOCKED-FREE">>, <<"FREE", "LOCKED-OCCUPIED">>}

SlotMoves(allowed) ==
    \A i \in Slots :
        (SlotState(i)' # SlotState(i) /\ cleared' = cleared) =>
            <<SlotState(i), SlotState(i)'>> \in allowed

\* C12 as stated: each slot only ever follows the cycle FREE -> LOCKED-FREE
\* -> OCCUPIED -> LOCKED-OCCUPIED -> FREE: the lock of a free slot is taken
\* only by a push and the lock of an occupied slot only by a pop.
C12_OnlyCycle == [][SlotMoves(Cycle)]_vars

\* C12 (amended): besides the cycle, a pop may take the lock of a free slot
\* and a push the lock of an occupied slot; such a pass changes nothing and
\* the operation retries.  A push always leaves the slot occupied when it
\* unlocks, a pop always leaves it free, and every lock hold is one pass
\* through the critical section of exactly one push or one pop.
C12_CycleWithRetries ==
    /\ [][SlotMoves(Cycle \cup Retries)]_vars
    /\ [](\A i \in Slots : _locks[i] # NoThread => InCS(_locks[i], i))

\* a pop holds the lock of its reserved slot, which the push has not filled
C12_Witness ==
    \E t \in Threads : pc[t] = "pop_occ" /\ ~_occupied[position[t]]
\* ---- C13 ---------------------------------------------------------------
\* thread t executes the reservation of its call in this step
Reserves(t) == pc[t] \in {"push_inc", "pop_dec"} /\ pc'[t] # pc[t]

\* the position the reservation of thread t yields
Reserved(t) == IF pc'[t] = "idle" THEN Last(log'[t]).pos ELSE position'[t]

BoundaryRace ==
    \A t \in Threads :
        (Reserves(t) /\ ~InBounds(Reserved(t))) =>
            /\ pc'[t] = "idle"
            /\ Len(log'[t]) = Len(log[t]) + 1
            /\ ~Last(log'[t]).ok
            /\ Last(log'[t]).val = Default
            /\ Last(log'[t]).diag = "bounds"
            /\ Last(log'[t]).op = (IF pc[t] = "push_inc" THEN "push" ELSE "pop")
            /\ _size' = (IF pc[t] = "push_inc" THEN _size + 1 ELSE _size - 1)
            /\ <<_data, _occupied, _locks>>' = <<_data, _occupied, _locks>>

\* C13: a push_back / pop_back whose reserved position is outside
\* [0, capacity) returns false / (T(), false); it never attempts a lock,
\* changes no data slot or occupancy bit, and leaves the raw counter
\* incremented (push) respectively decremented (pop) by exactly 1.
C13_NoRollback ==
    /\ [][BoundaryRace]_vars
    /\ [](\A t \in Threads : pc[t] \in CriticalSection \cup {"push_try", "pop_try"}
                => InBounds(position[t]))

\* both kinds of boundary race have happened: a push reserved a position at
\* or above capacity and a pop reserved one at or above capacity
C13_Witness ==
    /\ \E c \in OutOfBounds : Rec(c).op = "push" /\ Rec(c).pos >= Capacity
    /\ \E c \in OutOfBounds : Rec(c).op = "pop" /\ Rec(c).pos >= Capacity
    /\ Quiescent
\* ---- C14 ---------------------------------------------------------------
Moves(t) == pc'[t] # pc[t] \/ log'[t] # log[t]

\* the pass through the critical section in which thread t found its slot
\* in the unexpected occupancy state ends the call
EndsInSamePass ==
    \A t \in Threads :
        /\ (pc[t] = "push_occ" /\ occupied(position[t]) /\ Moves(t)) =>
                pc'[t] = "push_data"
        /\ (pc[t] = "push_unlock" /\ Moves(t)) =>
                /\ pc'[t] = "idle" /\ Last(log'[t]).ok
                /\ _occupied[position[t]] /\ _data[position[t]] = element[t]
        /\ (pc[t] = "pop_unlock" /\ Moves(t)) =>
                /\ pc'[t] = "idle"
                /\ ~pushed[t] => (~Last(log'[t]).ok /\ Last(log'[t]).val = Default)

\* the pass changes nothing and the call goes back to try_lock()
RetriesAfterPass ==
    \A t \in Threads :
        /\ (pc[t] = "push_occ" /\ occupied(position[t]) /\ Moves(t)) =>
                pc'[t] = "push_unlock" /\ ~pushed'[t] /\ shared' = shared
        /\ (pc[t] = "pop_occ" /\ ~occupied(position[t]) /\ Moves(t)) =>
                pc'[t] = "pop_unlock" /\ ~pushed'[t] /\ shared' = shared
        /\ (pc[t] \in {"push_unlock", "pop_unlock"} /\ ~pushed[t] /\ Moves(t)) =>
                /\ pc'[t] = (IF pc[t] = "push_unlock" THEN "push_try" ELSE "pop_try")
                /\ position'[t] = position[t] /\ log'[t] = log[t]
                /\ <<_size, _data, _occupied>>' = <<_size, _data, _occupied>>
                /\ _locks'[position[t]] = NoThread

\* C14 as stated: a push_back that finds its slot occupied inside the
\* critical section stores the element, sets the bit, unlocks and returns
\* true; a pop_back that finds its slot unoccupied unlocks and returns
\* (T(), false); both complete in that same critical section.
C14_EndsInSamePass == [][EndsInSamePass]_vars

\* C14 (amended): a push_back that finds its slot occupied, and a pop_back
\* that finds its slot unoccupied, unlock without changing data, occupancy
\* bit or counter and try the lock again; a call that reserved an in-bounds
\* position returns only after a pass that found the expected state, so it
\* returns true, and the unexpected-state diagnostics are never printed.
C14_RetriesAfterPass ==
    /\ [][RetriesAfterPass]_vars
    /\ [](\A c \in Returned :
            /\ InBounds(Rec(c).pos) => Rec(c).ok
            /\ Rec(c).diag \in {"none", "full", "empty", "bounds"})

\* a pop went through the critical section of an unoccupied slot and is
\* about to unlock and retry
C14_Witness ==
    \E t \in Threads :
        pc[t] = "pop_unlock" /\ ~pushed[t] /\ ~_occupied[position[t]]
\* ---- C15 ---------------------------------------------------------------
\* the bounds check is applied to the reserved position, and so is the lock
CheckedAndLocked ==
    \A t \in Threads :
        /\ Reserves(t) =>
                (InBounds(Reserved(t)) <=> pc'[t] = (IF pc[t] = "push_inc" THEN "push_try" ELSE "pop_try"))
        /\ (pc[t] \in {"push_try", "pop_try"} /\ pc'[t] # pc[t]) =>
                /\ _locks[position[t]] = NoThread /\ _locks'[position[t]] = t
                /\ \A i \in Slots \ {position[t]} : _locks'[i] = _locks[i]

\* C15 as stated: push_back reserves the counter's value before its atomic
\* increment and pop_back reserves the counter's value before its atomic
\* decrement (one past the new size).
C15_ValueBeforeUpdate ==
    [][\A t \in Threads : Reserves(t) => Reserved(t) = _size]_vars

\* C15 (amended): push_back reserves the counter's value before its atomic
\* increment; pop_back reserves the counter's value after its atomic
\* decrement (the new size, the index of the last element); the bounds check
\* and the slot lock of each operation are applied to that value.
C15_PushBeforePopAfter ==
    /\ [][\A t \in Threads : Reserves(t) =>
            /\ pc[t] = "push_inc" => (Reserved(t) = _size /\ _size' = _size + 1)
            /\ pc[t] = "pop_dec" => (Reserved(t) = _size' /\ _size' = _size - 1)]_vars
    /\ [][CheckedAndLocked]_vars

\* a pop holds the lock of the slot whose index is the decremented counter
C15_Witness ==
    \E t \in Threads :
        /\ pc[t] = "pop_occ" /\ position[t] = _size
        /\ _locks[position[t]] = t /\ _occupied[position[t]]
\* ---- C16 ---------------------------------------------------------------
\* C16: whenever the lock of slot i is free, occupied[i] == false implies
\* data[i] is T(), and occupied[i] == true implies data[i] is the element of
\* the push_back that last set bit i.
C16_DataAgreesWithBit ==
    \A i \in Slots :
        _locks[i] = NoThread =>
            /\ ~_occupied[i] => _data[i] = Default
            /\ _occupied[i] => (_data[i] = setter[i] /\ _data[i] \in Elems)

\* slot 0 was filled, popped and filled again by the other thread, slot 1 is
\* unoccupied and both locks are free
C16_Witness ==
    /\ locks_valid
    /\ _occupied[0] /\ ~_occupied[Capacity - 1]
    /\ \E c \in PopOk : Rec(c).pos = 0 /\ Rec(c).val # _data[0]
\* ---- C17 ---------------------------------------------------------------
\* a push_back or pop_back that reserved position i has not returned yet
InFlightAt(i) ==
    \E t \in Threads : pc[t] \notin {"idle", "push_inc", "pop_dec"} /\ position[t] = i

\* slots of the range [data, data + size())
device_range == {i \in Slots : i < size}

\* slot i is occupied iff it lies in the range
Prefix(i) == _occupied[i] <=> i \in device_range

\* C17: in every quiescent state slot i is occupied iff 0 <= i < size(), so
\* [data, data + size()) holds exactly the live elements; in a state that is
\* not quiescent the same holds of every slot no call in flight has reserved,
\* and a higher slot may be occupied while a lower reserved slot is not yet.
C17_PrefixOccupancy ==
    /\ Quiescent => /\ \A i \in Slots : Prefix(i)
                    /\ \A i \in device_range : _data[i] \in Elems
    /\ \A i \in Slots : ~InFlightAt(i) => Prefix(i)

\* the push that reserved position 0 has not stored yet, the push that
\* reserved the last position is done
C17_Witness ==
    /\ ~_occupied[0] /\ InFlightAt(0)
    /\ _occupied[Capacity - 1] /\ ~InFlightAt(Capacity - 1)
    /\ \E t \in Threads : pc[t] \in PushLabels /\ position[t] = 0
\* ---- C18 ---------------------------------------------------------------
\* a call goes on to its reservation only after it observed size() < capacity
\* (push_back) or size() > 0 (pop_back), and only a reservation or clear()
\* changes the counter
ReservesAfterCheck ==
    /\ \A t \in Threads :
            /\ (pc[t] = "idle" /\ pc'[t] = "push_inc") => size < Capacity
            /\ (pc[t] = "idle" /\ pc'[t] = "pop_dec") => size > 0
    /\ _size' # _size => (cleared' # cleared \/ \E t \in Threads : Reserves(t))

\* C18: with NumThreads threads that each have at most one call in flight on
\* a vector of capacity Capacity, the raw counter stays within
\* [1 - NumThreads, Capacity + NumThreads - 1] in every reachable state,
\* whatever the number of calls made before, because a call reserves only
\* after its preemptive check passed.
C18_BoundedOvershoot ==
    /\ [](1 - NumThreads <= _size /\ _size <= Capacity + NumThreads - 1)
    /\ [][ReservesAfterCheck]_vars

\* every thread passed the check of push_back at size() = capacity - 1 and
\* incremented: the counter is at its upper limit
C18_Witness ==
    /\ _size = Capacity + NumThreads - 1
    /\ \E c \in OutOfBounds : Rec(c).op = "push" /\ Rec(c).pos = _size - 1
\* ---- C19 ---------------------------------------------------------------
\* back(): operator[](size() - 1), called on a vector that is not empty
back == _data[size - 1]

\* the vector holds exactly the stack: size() is the depth, slot i holds the
\* i-th element from the bottom and back() is the top
HoldsStack(s) ==
    /\ size = Len(s)
    /\ _size = Len(s)
    /\ \A i \in Slots : _occupied[i] <=> i < Len(s)
    /\ \A i \in Slots : _data[i] = (IF i < Len(s) THEN s[i + 1] ELSE Default)
    /\ Len(s) > 0 => back = Last(s)

\* the call thread t returns from answers as the stack does
AnswersAsStack(t) ==
    LET rec == Last(log'[t])
        s   == stack.items
    IN  /\ rec.op = "push" => (rec.ok <=> Len(s) < Capacity)
        /\ rec.op = "pop"  => /\ rec.ok <=> Len(s) > 0
                              /\ rec.ok => rec.val = Last(s)
                              /\ ~rec.ok => rec.val = Default

\* C19: when push_back and pop_back are called one at a time on a vector
\* that starts empty, the vector is a bounded LIFO stack of capacity
\* Capacity: a push succeeds iff the stack is not full, a pop succeeds iff
\* the stack is not empty and then returns the element of the most recent
\* push not yet popped, and size() is the stack depth after every call.
C19_StackEquivalence ==
    /\ []((stack.serial /\ Quiescent /\ ~cleared) => HoldsStack(stack.items))
    /\ [][\A t \in Threads :
            (stack'.serial /\ Len(log'[t]) > Len(log[t])) => AnswersAsStack(t)]_vars

\* one at a time: the stack was filled, a push on the full stack failed and a
\* pop returned the top
C19_Witness ==
    /\ stack.serial /\ Quiescent /\ ~cleared
    /\ Len(stack.items) = Capacity - 1
    /\ \E c \in Returned : Rec(c).op = "push" /\ Rec(c).diag = "full"
    /\ \E c \in PopOk : Rec(c).pos = Capacity - 1
\* ---- C20 ---------------------------------------------------------------
\* the call that ran alone last started in a quiescent state: it succeeded
\* if it was a push_back and full() was false there, or a pop_back and
\* empty() was false there
SolitarySucceeds ==
    trail # <<>> =>
        LET r == Last(trail)
            n == sizeOf(r.before[1])
        IN  /\ (r.rec.op = "push" /\ n < Capacity) => r.rec.ok
            /\ (r.rec.op = "pop" /\ n > 0) => r.rec.ok

\* C20: in every quiescent state reachable by concurrent push_back/pop_back
\* interleavings, a push_back executed alone succeeds whenever full() is
\* false and a pop_back executed alone succeeds whenever empty() is false,
\* also when earlier failed reservations left the counter outside
\* [0, capacity].
C20_Recovery == SolitarySucceeds
====
